---------------------------- MODULE Spec2Model ----------------------------
(***************************************************************************)
(* A model of the C++ copy/move-constructor elision pass                   *)
(* (llvm/lib/Transforms/Scalar/CXXCopyElision.cpp).                        *)
(*                                                                         *)
(* A function is a table of values.  Value 1 is a function parameter (not  *)
(* an instruction), values 2 and 3 are the stack allocations a and b of    *)
(* the entry block, every further value is an instruction.  An instruction *)
(* keeps its identity for the whole run: erasing it puts its identity in   *)
(* F.erased, so an operand that still names an erased instruction is a     *)
(* dangling reference.                                                     *)
(***************************************************************************)
EXTENDS Integers, Sequences, FiniteSets

VARIABLES
  F,            \* the function: [inst, erased, cfg]
  F0,           \* the function as it was when the current invocation began
  pc,           \* position in runOnFunction, or the way the run ended
  CtorVec,      \* the collected candidates (line 93)
  idx,          \* position of the range-for of line 102 in CtorVec
  Call,         \* the candidate of the current iteration
  elide,        \* what canCtorBeElided returned for Call
  ImmDtors,     \* the local ImmDtors of the latest canCtorBeElided
  DeadInstList, \* member DeadInstList (line 240)
  From,         \* member From (line 241)
  To,           \* member To (line 242)
  Changed,      \* local Changed (line 101)
  ret,          \* what runOnFunction returned: "none", "true", "false"
  asserts,      \* TRUE while the build may still be one with assertions on
  run,          \* number of the current invocation on this function
  Accepted      \* the candidates canCtorBeElided returned true for (line 103)
                \* in the current invocation

vars == <<F, F0, pc, CtorVec, idx, Call, elide, ImmDtors, DeadInstList,
          From, To, Changed, ret, asserts, run, Accepted>>

---------------------------------------------------------------------------
(* Bounds of the model. *)

\* instructions after the two allocations a and b: single-block functions
\* over every kind of instruction,
MaxInsts == 3
\* single-block functions of casts, lifetime markers, constructions and
\* destructions of a,
MaxInstsLifetime == 4
\* functions with branches or a loop
MaxInstsCFG == 4
\* invocations of the pass on one function
MaxRuns == 2

\* nullptr, the initial value of From and To
Null == 0

---------------------------------------------------------------------------
(* The instruction graph. *)

Arg    == 1
AllocA == 2
AllocB == 3

Ids(f) == 1..Len(f.inst)

Live(f) == {i \in Ids(f) : f.inst[i].kind # "arg" /\ i \notin f.erased}

isInstruction(f, v) == f.inst[v].kind # "arg"

isAlloca(f, v) == f.inst[v].kind = "alloca"

\* isa<BitCastInst> || isa<GetElementPtrInst>
isCastOrGEP(f, v) == f.inst[v].kind = "cast"

isIntrinsic(f, v) ==
  f.inst[v].kind \in {"lifetime_start", "lifetime_end", "intrinsic"}

isLifetimeStartOrEnd(f, v) ==
  f.inst[v].kind \in {"lifetime_start", "lifetime_end"}

isCallBase(f, v) == f.inst[v].kind = "call" \/ isIntrinsic(f, v)

\* how many operands of instruction i are the value v
RECURSIVE CountIn(_, _)
CountIn(ops, v) ==
  IF ops = <<>> THEN 0
  ELSE (IF Head(ops) = v THEN 1 ELSE 0) + CountIn(Tail(ops), v)

RECURSIVE Repeat(_, _)
Repeat(x, n) == IF n = 0 THEN <<>> ELSE <<x>> \o Repeat(x, n - 1)

\* The use list of v: one entry per operand that names v, held by an
\* instruction that is still in the function.  A new use is put at the head
\* of the list, so the uses of a function built in program order appear
\* latest instruction first.
RECURSIVE UsersUpTo(_, _, _)
UsersUpTo(f, v, n) ==
  IF n = 0 THEN <<>>
  ELSE (IF n \in Live(f) THEN Repeat(n, CountIn(f.inst[n].ops, v)) ELSE <<>>)
       \o UsersUpTo(f, v, n - 1)

users(f, v) == UsersUpTo(f, v, Len(f.inst))

Range(s) == {s[k] : k \in 1..Len(s)}

getNumUses(f, v) == Len(users(f, v))

hasOneUse(f, v) == getNumUses(f, v) = 1

\* an operand of a remaining instruction that names an erased instruction
Dangling(f) ==
  {i \in Live(f) : \E k \in 1..Len(f.inst[i].ops) : f.inst[i].ops[k] \in f.erased}

\* GetUnderlyingObject: strip the casts and offsets
RECURSIVE GetUnderlyingObject(_, _)
GetUnderlyingObject(f, v) ==
  IF isCastOrGEP(f, v) THEN GetUnderlyingObject(f, f.inst[v].ops[1]) ELSE v

\* blocks reachable from the blocks of S, S included
RECURSIVE Closure(_, _)
Closure(f, S) ==
  LET N == S \cup UNION {f.cfg[b] : b \in S}
  IN  IF N = S THEN S ELSE Closure(f, N)

\* isPotentiallyReachable(A, B): B is A itself or later in A's block, or
\* B's block is reached from A's block over at least one edge
isPotentiallyReachable(f, A, B) ==
  LET ba == f.inst[A].bb
      bb == f.inst[B].bb
  IN  \/ ba = bb /\ A <= B
      \/ bb \in Closure(f, f.cfg[ba])

\* onlyUsedByLifetimeMarkers(V)
onlyUsedByLifetimeMarkers(f, v) ==
  \A u \in Range(users(f, v)) : isLifetimeStartOrEnd(f, u)

---------------------------------------------------------------------------
(* The call classifier, lines 35-52. *)

getNumArgOperands(f, v) == Len(f.inst[v].ops)

\* the arity test of line 36 loosened to "at least two"
isCxxCMCtor_AtLeastTwo(f, v) ==
  isCallBase(f, v) /\ f.inst[v].tagged /\ getNumArgOperands(f, v) >= 2

isCxxCMCtor(f, v) ==
  isCallBase(f, v) /\ f.inst[v].tagged /\ getNumArgOperands(f, v) = 2

isCxxDtor(f, v) ==
  isCallBase(f, v) /\ f.inst[v].tagged /\ getNumArgOperands(f, v) = 1

isCxxCMCtorOrDtor(f, v) == isCxxCMCtor(f, v) \/ isCxxDtor(f, v)

---------------------------------------------------------------------------
(* The functions the pass is run on. *)

I(kind, tagged, ops, bb) ==
  [kind |-> kind, tagged |-> tagged, ops |-> ops, bb |-> bb]

Entry == <<I("arg", FALSE, <<>>, 1), I("alloca", FALSE, <<>>, 1),
           I("alloca", FALSE, <<>>, 1)>>

Casts(t) == {i \in 1..Len(t) : t[i].kind = "cast"}
Allocas(t) == {i \in 1..Len(t) : t[i].kind = "alloca"}
TaggedCalls(t) == {i \in 1..Len(t) : t[i].kind = "call" /\ t[i].tagged}

Straight == <<{}>>
Diamond  == <<{2, 3}, {4}, {4}, {}>>
Loop     == <<{2}, {2, 3}, {}>>

\* What may follow the instructions t in a single block: a cast of an
\* object, a destruction, an ordinary call, a lifetime marker, another
\* intrinsic, an allocation of a computed size, a construction, a tagged
\* call of three arguments.
MenuAny(t) ==
  LET objs == Allocas(t) \cup Casts(t)
  IN  {I("cast", FALSE, <<x>>, 1) : x \in objs}
      \cup {I("call", TRUE, <<x>>, 1) : x \in objs}
      \cup {I("call", FALSE, <<x>>, 1) : x \in objs \cup TaggedCalls(t)}
      \cup {I("lifetime_end", FALSE, <<x>>, 1) : x \in objs}
      \cup {I("lifetime_start", FALSE, <<x>>, 1) : x \in Casts(t)}
      \cup {I("intrinsic", FALSE, <<x>>, 1) : x \in Casts(t)}
      \cup {I("alloca", FALSE, <<x>>, 1) : x \in TaggedCalls(t)}
      \cup {I("call", TRUE, <<x, y>>, 1) :
              x \in {AllocB, Arg} \cup Casts(t),
              y \in {AllocA, Arg} \cup Casts(t) \cup TaggedCalls(t)}
      \cup {I("call", TRUE, <<AllocB, AllocA, Arg>>, 1)}

\* What may follow t in a single block of casts of a, lifetime markers on
\* them, constructions of b from a and destructions of a.
MenuLifetime(t) ==
  LET src == {AllocA} \cup Casts(t)
  IN  {I("cast", FALSE, <<x>>, 1) : x \in src}
      \cup {I("lifetime_start", FALSE, <<x>>, 1) : x \in Casts(t)}
      \cup {I("lifetime_end", FALSE, <<x>>, 1) : x \in Casts(t)}
      \cup {I("call", TRUE, <<x>>, 1) : x \in src}
      \cup {I("call", TRUE, <<AllocB, y>>, 1) : y \in src}

\* What may follow t in a function with the blocks of cfg: construct b from
\* a, destroy a, use a, use b, in the last block used so far or in a later
\* one.
MenuCFG(t, cfg) ==
  {I("call", c[1], c[2], b) :
     c \in {<<TRUE, <<AllocB, AllocA>>>>, <<TRUE, <<AllocA>>>>,
            <<FALSE, <<AllocA>>>>, <<FALSE, <<AllocB>>>>},
     b \in {x \in 1..Len(cfg) : x >= t[Len(t)].bb}}

Menu(family, t, cfg) ==
  CASE family = "any"      -> MenuAny(t)
    [] family = "lifetime" -> MenuLifetime(t)
    [] family = "cfg"      -> MenuCFG(t, cfg)

\* F has the blocks of cfg, the instructions t and at most n more
RECURSIVE Builds(_, _, _, _)
Builds(family, t, cfg, n) ==
  \/ Len(t) > Len(Entry) /\ F = [inst |-> t, erased |-> {}, cfg |-> cfg]
  \/ n > 0 /\ \E r \in Menu(family, t, cfg) : Builds(family, Append(t, r), cfg, n - 1)

---------------------------------------------------------------------------
(* CtorVisitor, lines 58-79: the 2-argument tagged calls in appearance     *)
(* order.                                                                  *)

RECURSIVE collectFrom(_, _)
collectFrom(f, n) ==
  IF n > Len(f.inst) THEN <<>>
  ELSE (IF n \in Live(f) /\ isCallBase(f, n) /\ isCxxCMCtor(f, n) THEN <<n>> ELSE <<>>)
       \o collectFrom(f, n + 1)

collectCtors(f) == collectFrom(f, 1)

---------------------------------------------------------------------------
(* The legality check, lines 131-238. *)

\* line 202 left out: a destructor call is not trivial
isTrivialInstruction_NoDtor(f, v) ==
  IF isIntrinsic(f, v) /\ ~isLifetimeStartOrEnd(f, v) THEN FALSE
  ELSE isCastOrGEP(f, v) /\ onlyUsedByLifetimeMarkers(f, v)

\* line 206 asking for a single use in place of uses by lifetime markers
isTrivialInstruction_OneUse(f, v) ==
  IF isIntrinsic(f, v) /\ ~isLifetimeStartOrEnd(f, v) THEN FALSE
  ELSE IF isCxxDtor(f, v) THEN TRUE
  ELSE isCastOrGEP(f, v) /\ hasOneUse(f, v)

\* isTrivialInstruction, lines 197-207
isTrivialInstruction(f, v) ==
  IF isIntrinsic(f, v) /\ ~isLifetimeStartOrEnd(f, v) THEN FALSE
  ELSE IF isCxxDtor(f, v) THEN TRUE
  ELSE isCastOrGEP(f, v) /\ onlyUsedByLifetimeMarkers(f, v)

\* What one iteration of the loop of lines 213-235 does with the user DI of
\* v: "push", "skip", or both and "fault" where the code reads through II,
\* which is null in that branch (line 228): the behaviour is undefined.
DtorStep(f, v, DI) ==
  IF ~isInstruction(f, DI) THEN {"skip"}
  ELSE IF isCxxDtor(f, DI) THEN {"push"}
  ELSE IF isIntrinsic(f, v)
    THEN (IF f.inst[v].kind = "lifetime_end" THEN {"push"} ELSE {"skip"})
  ELSE IF isCastOrGEP(f, DI) /\ hasOneUse(f, DI)
    THEN LET U == users(f, DI)[1]
         IN  IF isIntrinsic(f, U) THEN {"fault", "push", "skip"}
             ELSE IF isInstruction(f, U) /\ isCxxDtor(f, U) THEN {"push"}
             ELSE {"skip"}
  ELSE {"skip"}

RECURSIVE DtorsFrom(_, _, _, _)
DtorsFrom(f, v, us, k) ==
  IF k > Len(us) THEN {[fault |-> FALSE, dtors |-> <<>>]}
  ELSE UNION {
         IF s = "fault" THEN {[fault |-> TRUE, dtors |-> <<>>]}
         ELSE {IF r.fault THEN r
               ELSE [fault |-> FALSE,
                     dtors |-> (IF s = "push" THEN <<us[k]>> ELSE <<>>) \o r.dtors]
                 : r \in DtorsFrom(f, v, us, k + 1)}
         : s \in DtorStep(f, v, us[k])}

\* findImmediateCopiedDtors, lines 209-238: the results the build can give
findImmediateCopiedDtors(f, v) == DtorsFrom(f, v, users(f, v), 1)

\* line 175 with the two arguments of the query exchanged
RECURSIVE DtorScan_Swapped(_, _, _, _, _)
DtorScan_Swapped(f, Ctor, U, dtors, k) ==
  IF k > Len(dtors) THEN [can |-> FALSE, af |-> FALSE]
  ELSE LET af  == ~isPotentiallyReachable(f, Ctor, dtors[k])
           can == isPotentiallyReachable(f, U, dtors[k])
       IN  IF ~can \/ k = Len(dtors) THEN [can |-> can, af |-> af]
           ELSE LET r == DtorScan_Swapped(f, Ctor, U, dtors, k + 1)
                IN  [can |-> r.can, af |-> af \/ r.af]

\* The loop of lines 172-178 for the user U: can is CanBeElided after the
\* loop, af says that an assertion of line 173 was false on the way.
RECURSIVE DtorScan(_, _, _, _, _)
DtorScan(f, Ctor, U, dtors, k) ==
  IF k > Len(dtors) THEN [can |-> FALSE, af |-> FALSE]
  ELSE LET af  == ~isPotentiallyReachable(f, Ctor, dtors[k])
           can == isPotentiallyReachable(f, dtors[k], U)
       IN  IF ~can \/ k = Len(dtors) THEN [can |-> can, af |-> af]
           ELSE LET r == DtorScan(f, Ctor, U, dtors, k + 1)
                IN  [can |-> r.can, af |-> af \/ r.af]

\* the loop of lines 151-183 with the test of line 169 left out
RECURSIVE UserScan_NoCtorReach(_, _, _, _, _, _)
UserScan_NoCtorReach(f, Ctor, us, dtors, k, list) ==
  IF k > Len(us) THEN [ok |-> TRUE, list |-> list, af |-> FALSE]
  ELSE LET U == us[k]
       IN  IF ~isInstruction(f, U) THEN [ok |-> FALSE, list |-> list, af |-> FALSE]
           ELSE IF U = Ctor THEN UserScan_NoCtorReach(f, Ctor, us, dtors, k + 1, list)
           ELSE IF isTrivialInstruction(f, U)
             THEN UserScan_NoCtorReach(f, Ctor, us, dtors, k + 1,
                                       (list \o <<U>>) \o users(f, U))
           ELSE LET d == DtorScan(f, Ctor, U, dtors, 1)
                IN  IF ~d.can THEN [ok |-> FALSE, list |-> list, af |-> d.af]
                    ELSE LET r == UserScan_NoCtorReach(f, Ctor, us, dtors, k + 1, list)
                         IN  [ok |-> r.ok, list |-> r.list, af |-> d.af \/ r.af]

\* The loop of lines 151-183 from the k-th user of AllocFrom on, InstList
\* being list so far.
RECURSIVE UserScan(_, _, _, _, _, _)
UserScan(f, Ctor, us, dtors, k, list) ==
  IF k > Len(us) THEN [ok |-> TRUE, list |-> list, af |-> FALSE]
  ELSE LET U == us[k]
       IN  IF ~isInstruction(f, U) THEN [ok |-> FALSE, list |-> list, af |-> FALSE]
           ELSE IF U = Ctor THEN UserScan(f, Ctor, us, dtors, k + 1, list)
           ELSE IF isTrivialInstruction(f, U)
             THEN UserScan(f, Ctor, us, dtors, k + 1, (list \o <<U>>) \o users(f, U))
           ELSE IF isPotentiallyReachable(f, Ctor, U)
             THEN LET d == DtorScan(f, Ctor, U, dtors, 1)
                  IN  IF ~d.can THEN [ok |-> FALSE, list |-> list, af |-> d.af]
                      ELSE LET r == UserScan(f, Ctor, us, dtors, k + 1, list)
                           IN  [ok |-> r.ok, list |-> r.list, af |-> d.af \/ r.af]
           ELSE UserScan(f, Ctor, us, dtors, k + 1, list)

\* line 144 testing the destination only
canCtorBeElided_ToOnly(f, Ctor, m) ==
  LET AllocTo       == GetUnderlyingObject(f, f.inst[Ctor].ops[1])
      AllocFrom     == GetUnderlyingObject(f, f.inst[Ctor].ops[2])
      ImmediateFrom == f.inst[Ctor].ops[2]
      no == [res |-> "false", af |-> FALSE, imm |-> <<>>, From |-> m.From,
             To |-> m.To, DeadInstList |-> m.DeadInstList]
  IN  IF ~isAlloca(f, AllocTo) THEN {no}
      ELSE {IF d.fault THEN [no EXCEPT !.res = "fault"]
            ELSE LET r == UserScan(f, Ctor, users(f, AllocFrom), d.dtors, 1, <<>>)
                 IN  IF r.ok
                     THEN [res |-> "true", af |-> r.af, imm |-> d.dtors,
                           From |-> AllocFrom, To |-> AllocTo,
                           DeadInstList |-> r.list]
                     ELSE [no EXCEPT !.af = r.af, !.imm = d.dtors]
              : d \in findImmediateCopiedDtors(f, ImmediateFrom)}

\* lines 185-186 with AllocFrom and AllocTo exchanged
canCtorBeElided_Exchanged(f, Ctor, m) ==
  LET AllocTo       == GetUnderlyingObject(f, f.inst[Ctor].ops[1])
      AllocFrom     == GetUnderlyingObject(f, f.inst[Ctor].ops[2])
      ImmediateFrom == f.inst[Ctor].ops[2]
      no == [res |-> "false", af |-> FALSE, imm |-> <<>>, From |-> m.From,
             To |-> m.To, DeadInstList |-> m.DeadInstList]
  IN  IF ~isAlloca(f, AllocTo) \/ ~isAlloca(f, AllocFrom) THEN {no}
      ELSE {IF d.fault THEN [no EXCEPT !.res = "fault"]
            ELSE LET r == UserScan(f, Ctor, users(f, AllocFrom), d.dtors, 1, <<>>)
                 IN  IF r.ok
                     THEN [res |-> "true", af |-> r.af, imm |-> d.dtors,
                           From |-> AllocTo, To |-> AllocFrom,
                           DeadInstList |-> r.list]
                     ELSE [no EXCEPT !.af = r.af, !.imm = d.dtors]
              : d \in findImmediateCopiedDtors(f, ImmediateFrom)}

\* lines 185-186 moved before the loop of line 151
canCtorBeElided_PlanFirst(f, Ctor, m) ==
  LET AllocTo       == GetUnderlyingObject(f, f.inst[Ctor].ops[1])
      AllocFrom     == GetUnderlyingObject(f, f.inst[Ctor].ops[2])
      ImmediateFrom == f.inst[Ctor].ops[2]
      no == [res |-> "false", af |-> FALSE, imm |-> <<>>, From |-> m.From,
             To |-> m.To, DeadInstList |-> m.DeadInstList]
  IN  IF ~isAlloca(f, AllocTo) \/ ~isAlloca(f, AllocFrom) THEN {no}
      ELSE {IF d.fault THEN [no EXCEPT !.res = "fault"]
            ELSE LET r == UserScan(f, Ctor, users(f, AllocFrom), d.dtors, 1, <<>>)
                 IN  IF r.ok
                     THEN [res |-> "true", af |-> r.af, imm |-> d.dtors,
                           From |-> AllocFrom, To |-> AllocTo,
                           DeadInstList |-> r.list]
                     ELSE [no EXCEPT !.af = r.af, !.imm = d.dtors,
                                     !.From = AllocFrom, !.To = AllocTo]
              : d \in findImmediateCopiedDtors(f, ImmediateFrom)}

\* canCtorBeElided, lines 131-195, called with the members m = [From, To,
\* DeadInstList]: the outcomes the build can give.  res is "true", "false"
\* or "fault"; af says that an assertion of line 173 was false on the way,
\* so a build with assertions stops there; imm is the local ImmDtors; From,
\* To and DeadInstList are the members when the call returns.
canCtorBeElided(f, Ctor, m) ==
  LET AllocTo       == GetUnderlyingObject(f, f.inst[Ctor].ops[1])
      AllocFrom     == GetUnderlyingObject(f, f.inst[Ctor].ops[2])
      ImmediateFrom == f.inst[Ctor].ops[2]
      no == [res |-> "false", af |-> FALSE, imm |-> <<>>, From |-> m.From,
             To |-> m.To, DeadInstList |-> m.DeadInstList]
  IN  IF ~isAlloca(f, AllocTo) \/ ~isAlloca(f, AllocFrom) THEN {no}
      ELSE {IF d.fault THEN [no EXCEPT !.res = "fault"]
            ELSE LET r == UserScan(f, Ctor, users(f, AllocFrom), d.dtors, 1, <<>>)
                 IN  IF r.ok
                     THEN [res |-> "true", af |-> r.af, imm |-> d.dtors,
                           From |-> AllocFrom, To |-> AllocTo,
                           DeadInstList |-> r.list]
                     ELSE [no EXCEPT !.af = r.af, !.imm = d.dtors]
              : d \in findImmediateCopiedDtors(f, ImmediateFrom)}

---------------------------------------------------------------------------

Init ==
  /\ \/ Builds("any", Entry, Straight, MaxInsts)
     \/ Builds("lifetime", Entry, Straight, MaxInstsLifetime)
     \/ \E cfg \in {Diamond, Loop} : Builds("cfg", Entry, cfg, MaxInstsCFG)
  /\ F0 = F
  /\ pc = "start"
  /\ CtorVec = <<>>
  /\ idx = 1
  /\ Call = Null
  /\ elide = FALSE
  /\ ImmDtors = <<>>
  /\ DeadInstList = <<>>
  /\ From = Null
  /\ To = Null
  /\ Changed = FALSE
  /\ ret = "none"
  /\ asserts = TRUE
  /\ run = 1
  /\ Accepted = {}

\* lines 90-91: the pass manager says to skip the function
Skip ==
  /\ pc = "start"
  /\ pc' = "skipped"
  /\ ret' = "false"
  /\ UNCHANGED <<F, F0, CtorVec, idx, Call, elide, ImmDtors, DeadInstList,
                 From, To, Changed, asserts, run, Accepted>>

\* lines 93-96 with Changed of line 101 kept from the invocation before
Collect_ChangedKept ==
  /\ pc = "start"
  /\ CtorVec' = collectCtors(F)
  /\ idx' = 1
  /\ Accepted' = {}
  /\ pc' = "for"
  /\ UNCHANGED <<F, F0, Call, elide, ImmDtors, DeadInstList, From, To, ret,
                 asserts, run, Changed>>

\* lines 93-101
Collect ==
  /\ pc = "start"
  /\ CtorVec' = collectCtors(F)
  /\ idx' = 1
  /\ Changed' = FALSE
  /\ Accepted' = {}
  /\ pc' = "for"
  /\ UNCHANGED <<F, F0, Call, elide, ImmDtors, DeadInstList, From, To, ret,
                 asserts, run>>

\* A candidate that was erased, or an operand of it that was, is read
\* through a pointer to freed memory.
ReadsErased(f, Ctor) ==
  \/ Ctor \in f.erased
  \/ \E k \in 1..Len(f.inst[Ctor].ops) : f.inst[Ctor].ops[k] \in f.erased

\* line 103: canCtorBeElided(*Call).  A false assertion of line 173 stops a
\* build with assertions; the null read of line 228 or a read of freed
\* memory may stop any build.
Check ==
  /\ pc = "for"
  /\ idx <= Len(CtorVec)
  /\ Call' = CtorVec[idx]
  /\ \E o \in canCtorBeElided(F, CtorVec[idx],
                [From |-> From, To |-> To, DeadInstList |-> DeadInstList]),
        stop \in BOOLEAN :
       IF stop
       THEN /\ \/ o.res = "fault"
               \/ o.af /\ asserts
               \/ ReadsErased(F, CtorVec[idx])
            /\ pc' = (IF o.res = "fault" THEN "fault228"
                      ELSE IF o.af /\ asserts THEN "assert173"
                      ELSE "freed")
            /\ UNCHANGED <<elide, ImmDtors, DeadInstList, From, To, asserts,
                           Accepted>>
       ELSE /\ o.res # "fault"
            /\ pc' = "checked"
            /\ elide' = (o.res = "true")
            /\ Accepted' = (IF o.res = "true" THEN Accepted \cup {CtorVec[idx]}
                            ELSE Accepted)
            /\ ImmDtors' = o.imm
            /\ asserts' = (asserts /\ ~o.af)
            /\ From' = o.From
            /\ To' = o.To
            /\ DeadInstList' = o.DeadInstList
  /\ UNCHANGED <<F, F0, CtorVec, idx, Changed, ret, run>>

\* line 103, false: on to the next candidate
Reject ==
  /\ pc = "checked"
  /\ ~elide
  /\ idx' = idx + 1
  /\ pc' = "for"
  /\ UNCHANGED <<F, F0, CtorVec, Call, elide, ImmDtors, DeadInstList, From,
                 To, Changed, ret, asserts, run, Accepted>>

\* line 104
Accept ==
  /\ pc = "checked"
  /\ elide
  /\ DeadInstList' = Append(DeadInstList, Call)
  /\ pc' = "while"
  /\ UNCHANGED <<F, F0, CtorVec, idx, Call, elide, ImmDtors, From, To,
                 Changed, ret, asserts, run, Accepted>>

eraseFromParent(f, v) == [f EXCEPT !.erased = @ \cup {v}]

\* lines 106-113, one iteration.  Erasing an instruction that has uses stops
\* a build with assertions (line 110); another build erases it and leaves
\* its users with a dangling operand.  Erasing an instruction a second time
\* is a use of freed memory.
Erase ==
  /\ pc = "while"
  /\ DeadInstList # <<>>
  /\ LET EI == DeadInstList[Len(DeadInstList)]
     IN  /\ DeadInstList' = SubSeq(DeadInstList, 1, Len(DeadInstList) - 1)
         /\ \E stop \in BOOLEAN :
              IF stop
              THEN /\ \/ getNumUses(F, EI) # 0 /\ asserts
                      \/ EI \in F.erased
                   /\ pc' = (IF EI \in F.erased THEN "freed" ELSE "assert110")
                   /\ UNCHANGED <<F, asserts>>
              ELSE /\ F' = eraseFromParent(F, EI)
                   /\ asserts' = (asserts /\ getNumUses(F, EI) = 0)
                   /\ pc' = "while"
  /\ UNCHANGED <<F0, CtorVec, idx, Call, elide, ImmDtors, From, To, Changed,
                 ret, run, Accepted>>

\* From->replaceAllUsesWith(To)
replaceAllUsesWith(f, from, to) ==
  [f EXCEPT !.inst = [i \in Ids(f) |->
     IF i \in Live(f)
     THEN [f.inst[i] EXCEPT !.ops = [k \in 1..Len(f.inst[i].ops) |->
             IF f.inst[i].ops[k] = from THEN to ELSE f.inst[i].ops[k]]]
     ELSE f.inst[i]]]

\* lines 115-119 with line 121 left out
Replace_ChangedLeft ==
  /\ pc = "while"
  /\ DeadInstList = <<>>
  /\ LET G == replaceAllUsesWith(F, From, To)
     IN  F' = IF getNumUses(G, From) = 0 THEN eraseFromParent(G, From) ELSE G
  /\ idx' = idx + 1
  /\ pc' = "for"
  /\ UNCHANGED <<F0, CtorVec, Call, elide, ImmDtors, DeadInstList, From, To,
                 Changed, ret, asserts, run, Accepted>>

\* lines 115-121
Replace ==
  /\ pc = "while"
  /\ DeadInstList = <<>>
  /\ LET G == replaceAllUsesWith(F, From, To)
     IN  F' = IF getNumUses(G, From) = 0 THEN eraseFromParent(G, From) ELSE G
  /\ Changed' = TRUE
  /\ idx' = idx + 1
  /\ pc' = "for"
  /\ UNCHANGED <<F0, CtorVec, Call, elide, ImmDtors, DeadInstList, From, To,
                 ret, asserts, run, Accepted>>

\* line 127
Return ==
  /\ pc = "for"
  /\ idx > Len(CtorVec)
  /\ ret' = (IF Changed THEN "true" ELSE "false")
  /\ pc' = "done"
  /\ UNCHANGED <<F, F0, CtorVec, idx, Call, elide, ImmDtors, DeadInstList,
                 From, To, Changed, asserts, run, Accepted>>

\* the pass manager runs the same pass object on the function once more
RunAgain ==
  /\ pc \in {"done", "skipped"}
  /\ run < MaxRuns
  /\ run' = run + 1
  /\ F0' = F
  /\ ret' = "none"
  /\ Accepted' = {}
  /\ pc' = "start"
  /\ UNCHANGED <<F, CtorVec, idx, Call, elide, ImmDtors, DeadInstList, From,
                 To, Changed, asserts>>

Next ==
  \/ Skip
  \/ Collect
  \/ Check
  \/ Reject
  \/ Accept
  \/ Erase
  \/ Replace
  \/ Return

Spec == Init /\ [][Next]_vars

\* the pass run up to MaxRuns times in succession on the same function
NextTwice == Next \/ RunAgain

SpecTwice == Init /\ [][NextTwice]_vars

---------------------------------------------------------------------------
(* What the claims speak of. *)

\* the allocations behind the two arguments of the candidate c
AllocToOf(f, c)   == GetUnderlyingObject(f, f.inst[c].ops[1])
AllocFromOf(f, c) == GetUnderlyingObject(f, f.inst[c].ops[2])

\* the consumers of the source allocation of c other than c that the check
\* does not defer
NonTrivialUsers(f, c) ==
  {U \in Range(users(f, AllocFromOf(f, c))) : U # c /\ ~isTrivialInstruction(f, U)}

\* the instructions that end the lifetime of the allocation a: a destructor
\* call or a lifetime-end marker on a or on a cast of a
LifetimeEnders(f, a) ==
  {i \in Live(f) : /\ isCxxDtor(f, i) \/ f.inst[i].kind = "lifetime_end"
                   /\ GetUnderlyingObject(f, f.inst[i].ops[1]) = a}

Min(S) == CHOOSE x \in S : \A y \in S : x <= y

InBlock(f, b) == {i \in Live(f) : f.inst[i].bb = b}

\* the instructions executed first when control enters one of the blocks B
RECURSIVE FirstOf(_, _, _)
FirstOf(f, B, seen) ==
  UNION {IF InBlock(f, b) # {} THEN {Min(InBlock(f, b))}
         ELSE FirstOf(f, f.cfg[b], seen \cup {b}) : b \in B \ seen}

\* the instructions that may be executed right after i
After(f, i) ==
  LET later == {j \in InBlock(f, f.inst[i].bb) : j > i}
  IN  IF later # {} THEN {Min(later)} ELSE FirstOf(f, f.cfg[f.inst[i].bb], {})

RECURSIVE Along(_, _, _)
Along(f, R, X) ==
  LET N == R \cup UNION {After(f, i) : i \in R \ X}
  IN  IF N = R THEN R ELSE Along(f, N, X)

\* the instructions that a path from A reaches with no instruction of X
\* executed on the way
ReachedAvoiding(f, A, X) == Along(f, After(f, A), X)

TheCtor(f) == CHOOSE c \in Live(f) : isCxxCMCtor(f, c)

\* C1: after an invocation of the pass no operand of a remaining
\* instruction names an erased instruction.
C1_NoDanglingAfterRun ==
  pc \in {"done", "skipped"} => Dangling(F) = {}

\* C2: when a non-trivial consumer U of the source allocation, other than
\* the candidate, is reachable from the candidate and some instruction of
\* the immediate-destructor set cannot reach U, the check returns false.
C2_RejectsWhenADtorCannotReachUse ==
  (/\ pc = "checked"
   /\ \E U \in NonTrivialUsers(F, Call) :
        /\ isPotentiallyReachable(F, Call, U)
        /\ \E d \in Range(ImmDtors) : ~isPotentiallyReachable(F, d, U))
  => ~elide

\* the branching case of C2: b is constructed from a in the entry block, one
\* arm destroys a and uses b, the other arm uses a, and the check has
\* returned false
C2_Witness ==
  /\ pc = "checked"
  /\ ~elide
  /\ F.cfg = Diamond
  /\ F.inst[Call].bb = 1
  /\ F.inst[Call].ops = <<AllocB, AllocA>>
  /\ \E d \in Range(ImmDtors), u \in Live(F), U \in NonTrivialUsers(F, Call) :
       /\ F.inst[d].bb = 2 /\ isCxxDtor(F, d)
       /\ F.inst[u].bb = 2 /\ F.inst[u].ops = <<AllocB>> /\ u > d
       /\ F.inst[U].bb = 3
       /\ isPotentiallyReachable(F, Call, U)
       /\ ~isPotentiallyReachable(F, d, U)

\* C3: when the source allocation has a non-trivial use U and some path from
\* the candidate reaches U with no lifetime-ending instruction of the source
\* executed before U, the check returns false.
C3_RejectsUseOnAPathWithoutDtor ==
  (/\ pc = "checked"
   /\ \E U \in NonTrivialUsers(F, Call) \ LifetimeEnders(F, AllocFromOf(F, Call)) :
        U \in ReachedAvoiding(F, Call, LifetimeEnders(F, AllocFromOf(F, Call))))
  => ~elide

\* the function is construct(b, a); destroy(a) with a and b passed directly,
\* no other use of a, no use of the two results and no other candidate
IsConstructDestroy(f) ==
  /\ \E c \in Live(f) : isCxxCMCtor(f, c)
  /\ \A c \in Live(f) : isCxxCMCtor(f, c) => c = TheCtor(f)
  /\ LET c == TheCtor(f)
     IN  /\ f.inst[c].ops = <<AllocB, AllocA>>
         /\ users(f, c) = <<>>
         /\ \E d \in Live(f) :
              /\ isCxxDtor(f, d)
              /\ f.inst[d].bb = f.inst[c].bb
              /\ d > c
              /\ users(f, d) = <<>>
              /\ Range(users(f, AllocA)) = {c, d}

TheDtor(f) == CHOOSE d \in Live(f) : isCxxDtor(f, d) /\ f.inst[d].ops = <<AllocA>>

\* C4: on construct(b, a); destroy(a); use(b) the pass accepts, returns
\* changed, erases the construction and the destruction and leaves every
\* other instruction, use(b) among them, as it was.
C4_StraightLineElided ==
  (pc = "done" /\ IsConstructDestroy(F0))
  => /\ ret = "true"
     /\ TheCtor(F0) \in F.erased
     /\ TheDtor(F0) \in F.erased
     /\ \A i \in Live(F0) \ {TheCtor(F0), TheDtor(F0), AllocA} :
          i \in Live(F) /\ F.inst[i] = F0.inst[i]

C4_Witness ==
  /\ pc = "done"
  /\ IsConstructDestroy(F0)
  /\ ret = "true"
  /\ \E u \in Live(F) : /\ F.inst[u].kind = "call" /\ ~F.inst[u].tagged
                        /\ F.inst[u].ops = <<AllocB>>
                        /\ u > TheDtor(F0)

\* C5: once the dead instructions of an accepted plan are erased, the
\* construction call is erased and no destructor call on the source
\* allocation, direct or through casts, is left to be retargeted.
C5_SourceDtorsErased ==
  (pc = "while" /\ DeadInstList = <<>>)
  => /\ Call \in F.erased
     /\ \A d \in Live(F) :
          isCxxDtor(F, d) => GetUnderlyingObject(F, F.inst[d].ops[1]) # From

\* the candidate c has an argument that resolves to no stack allocation
NotOnAllocas(f, c) ==
  ~isAlloca(f, AllocToOf(f, c)) \/ ~isAlloca(f, AllocFromOf(f, c))

PlanKept ==
  From' = From /\ To' = To /\ DeadInstList' = DeadInstList

\* C6: the check accepts only a candidate whose two arguments resolve,
\* through casts, to stack allocations, which become To and From; a candidate
\* with an argument that resolves to anything else is rejected and neither
\* the check nor the step after it changes the function or the plan.
C6_OnlyAllocasAccepted ==
  [][/\ (pc = "for" /\ pc' = "checked" /\ elide')
        => /\ isAlloca(F, AllocToOf(F, Call')) /\ To' = AllocToOf(F, Call')
           /\ isAlloca(F, AllocFromOf(F, Call')) /\ From' = AllocFromOf(F, Call')
     /\ (pc = "for" /\ idx <= Len(CtorVec) /\ NotOnAllocas(F, CtorVec[idx]))
        => (pc' = "checked" => ~elide') /\ F' = F /\ PlanKept
     /\ (pc = "checked" /\ NotOnAllocas(F, Call))
        => pc' = "for" /\ F' = F /\ PlanKept]_vars

\* a candidate whose source is the function's parameter has been rejected
C6_Witness ==
  /\ pc = "checked"
  /\ ~elide
  /\ AllocFromOf(F, Call) = Arg
  /\ isAlloca(F, AllocToOf(F, Call))

\* the tagged calls of f with n arguments
Tagged(f, n) ==
  {i \in Live(f) : isCallBase(f, i) /\ f.inst[i].tagged /\ Len(f.inst[i].ops) = n}

\* C7: a call is a construction exactly when it is tagged and has two
\* arguments and a destruction exactly when it is tagged and has one, never
\* both, and the candidates are the tagged calls of two arguments, in
\* appearance order.
C7_ClassifiedByTagAndArity ==
  pc \notin {"start", "skipped"}
  => /\ Range(CtorVec) = Tagged(F0, 2)
     /\ \A k \in 1..(Len(CtorVec) - 1) : CtorVec[k] < CtorVec[k + 1]
     /\ \A i \in Live(F0) :
          /\ isCxxCMCtor(F0, i) <=> i \in Tagged(F0, 2)
          /\ isCxxDtor(F0, i) <=> i \in Tagged(F0, 1)
          /\ ~(isCxxCMCtor(F0, i) /\ isCxxDtor(F0, i))

\* collected: a construction, with a destruction and a tagged call of three
\* arguments in the same function
C7_Witness ==
  /\ pc = "for"
  /\ CtorVec # <<>>
  /\ Tagged(F0, 1) # {}
  /\ \E i \in Live(F0) : isCallBase(F0, i) /\ F0.inst[i].tagged /\ Len(F0.inst[i].ops) > 2

\* a cast or offset whose only consumers are lifetime markers
IsMarkerOnlyCast(f, c) ==
  /\ f.inst[c].kind = "cast"
  /\ \A i \in Live(f) :
       (\E k \in 1..Len(f.inst[i].ops) : f.inst[i].ops[k] = c)
       => f.inst[i].kind \in {"lifetime_start", "lifetime_end"}

Before(s, x, y) ==
  \E p \in 1..Len(s), q \in 1..Len(s) : p < q /\ s[p] = x /\ s[q] = y

AllocasIn(f) == {i \in Live(f) : isAlloca(f, i)}

\* C9 as stated: the allocations of the function are the same after an
\* invocation as before it.
C9_AllocationsUntouched ==
  pc = "done" => AllocasIn(F) = AllocasIn(F0)

\* C9 as amended: the pass creates no allocation, and it erases one only as
\* the source allocation of the accepted candidate, once no operand names
\* it, or as an instruction of the dead list, a consumer of the result of a
\* destructor call on that source.
C9_OnlySourceAllocationErased ==
  [][/\ AllocasIn(F') \subseteq AllocasIn(F)
     /\ \A x \in AllocasIn(F) \ AllocasIn(F') :
          /\ pc = "while"
          /\ elide
          /\ \/ /\ DeadInstList = <<>>
                /\ x = AllocFromOf(F, Call)
                /\ getNumUses(F', x) = 0
             \/ /\ DeadInstList # <<>>
                /\ x = DeadInstList[Len(DeadInstList)]
                /\ \E d \in Range(F.inst[x].ops) :
                     isCxxDtor(F, d) /\ AllocFromOf(F, Call) \in Range(F.inst[d].ops)]_vars

\* the pass has returned changed with the source allocation a erased and the
\* destination b in place
C9_Witness ==
  /\ pc = "done"
  /\ ret = "true"
  /\ AllocA \in F.erased
  /\ AllocB \in Live(F)

\* C10: a check that returns false leaves the function and the stored plan
\* as they were, so does the step to the next candidate, and the plan is
\* written by an accepting check only.
C10_RejectionChangesNothing ==
  [][/\ (pc = "for" /\ pc' = "checked" /\ ~elide') => F' = F /\ PlanKept
     /\ (pc = "checked" /\ ~elide) => F' = F /\ PlanKept
     /\ (pc = "for" /\ ~PlanKept) => pc' = "checked" /\ elide']_vars

\* a candidate on two allocations has been rejected while the plan of an
\* earlier accepted candidate is stored
C10_Witness ==
  /\ pc = "checked"
  /\ ~elide
  /\ ~NotOnAllocas(F, Call)
  /\ From # Null
  /\ Changed

\* C11: the pass returns true exactly when the check accepted at least one
\* candidate during the invocation, and a function for which it returns
\* false is the function it was given.
C11_ReturnsWhetherAccepted ==
  /\ pc = "done" => /\ ret = "true" <=> Accepted # {}
                    /\ ret = "false" => F = F0
  /\ pc = "skipped" => ret = "false" /\ F = F0

\* the pass has returned true after a run that accepted one candidate and
\* rejected another
C11_Witness ==
  /\ pc = "done"
  /\ ret = "true"
  /\ Accepted # {}
  /\ Range(CtorVec) \ Accepted # {}

\* the check can return true for the candidate c of f, or reads an erased
\* instruction to decide
Acceptable(f, c) ==
  \/ ReadsErased(f, c)
  \/ \E o \in canCtorBeElided(f, c, [From |-> Null, To |-> Null, DeadInstList |-> <<>>]) :
       o.res = "true"

\* no candidate of f is acceptable
FixedPoint(f) == \A c \in Range(collectCtors(f)) : ~Acceptable(f, c)

\* C12: when the pass is run again on a function that an earlier run left
\* with no acceptable candidate, it returns false and leaves the function as
\* it found it.
C12_SecondRunChangesNothing ==
  (run > 1 /\ pc = "done" /\ FixedPoint(F0)) => ret = "false" /\ F = F0

\* the second run has returned after checking a candidate that the first
\* run, which elided another one, left in the function
C12_Witness ==
  /\ run = 2
  /\ pc = "done"
  /\ FixedPoint(F0)
  /\ F0.erased # {}
  /\ CtorVec # <<>>
  /\ ret = "false"

\* C13: every instruction the erase loop takes from the dead list of an
\* accepted plan has no consumer when it is erased.
C13_ErasedHaveNoConsumers ==
  (pc = "while" /\ DeadInstList # <<>>)
  => getNumUses(F, DeadInstList[Len(DeadInstList)]) = 0

\* every consumer of the source allocation of the candidate c, other than c
\* and the trivial ones, is out of reach of c or reached from every
\* instruction of dtors
UsesAfterDtors(f, c, dtors) ==
  \A U \in NonTrivialUsers(f, c) :
    \/ ~isPotentiallyReachable(f, c, U)
    \/ \A d \in Range(dtors) : isPotentiallyReachable(f, d, U)

RECURSIVE IsTrivialAsSpecified(_, _)
IsTrivialAsSpecified(f, v) ==
  IF isIntrinsic(f, v) /\ ~isLifetimeStartOrEnd(f, v) THEN FALSE
  ELSE \/ isCxxDtor(f, v)
       \/ isLifetimeStartOrEnd(f, v)
       \/ /\ isCastOrGEP(f, v)
          /\ \A u \in Range(users(f, v)) : IsTrivialAsSpecified(f, u)

\* C15: isTrivialInstruction answers true for exactly the destructor calls,
\* the lifetime markers and the casts and offsets whose consumers are all
\* trivial in turn; shown on the consumers of the source allocation that
\* the check has classified.
C15_TrivialAsSpecified ==
  (pc = "checked" /\ ~NotOnAllocas(F, Call))
  => \A U \in Range(users(F, AllocFromOf(F, Call))) :
       isTrivialInstruction(F, U) <=> IsTrivialAsSpecified(F, U)

\* a cast or offset with exactly one consumer, a lifetime-end marker or a
\* destructor call
EndsThroughCast(f, DI) ==
  /\ isCastOrGEP(f, DI)
  /\ hasOneUse(f, DI)
  /\ LET U == users(f, DI)[1]
     IN  f.inst[U].kind = "lifetime_end" \/ isCxxDtor(f, U)

\* the immediate dependent destructors of v as section 4.3 lists them
DependentDtorsAsSpecified(f, v) ==
  {DI \in Range(users(f, v)) :
     \/ isCxxDtor(f, DI)
     \/ f.inst[DI].kind = "lifetime_end"
     \/ EndsThroughCast(f, DI)}

\* C16: findImmediateCopiedDtors never faults, and it returns the direct
\* consumers that are destructor calls, lifetime-end markers, or casts and
\* offsets with one consumer that is a lifetime-end marker or a destructor
\* call; shown on the source operand of the candidate that was checked.
C16_DependentDtorsWithoutFault ==
  /\ pc # "fault228"
  /\ (pc = "checked" /\ ~NotOnAllocas(F, Call))
     => Range(ImmDtors) = DependentDtorsAsSpecified(F, F.inst[Call].ops[2])

\* C17: the assertion of line 173 never fails.
C17_AssertionNeverFails == pc # "assert173"

\* C18: in an accepted plan From and To are two allocations, and once the
\* plan is applied From has been erased.
C18_FromAndToDistinct ==
  /\ (pc \in {"checked", "while"} /\ elide)
     => /\ From # To
        /\ isAlloca(F, From)
        /\ isAlloca(F, To)
  /\ (pc \in {"for", "done"} /\ Accepted # {}) => From \in F.erased

\* C19: the candidates are those collected from the function as it was
\* given, in appearance order; one is checked only when the plan of the one
\* before is applied in full; and the candidate handed to the check is
\* still in the function, its two arguments naming values that are not
\* erased.
C19_CandidatesStillValid ==
  /\ pc \notin {"start", "skipped"} => CtorVec = collectCtors(F0)
  /\ pc = "for" => DeadInstList = <<>>
  /\ (pc = "for" /\ idx <= Len(CtorVec)) => ~ReadsErased(F, CtorVec[idx])

===========================================================================
